---- MODULE Spec2Model ----
(***************************************************************************)
(* stackparse: the goroutine-dump parser (package stacks) and the analysis *)
(* layer of the command line tool.                                         *)
(*                                                                         *)
(* Strings are sequences of one-character strings, so that the string      *)
(* functions the parser calls (Split, Trim, Fields, Atoi, ParseInt, ...)   *)
(* are computed character by character as the Go library computes them.    *)
(* Go slice indices are kept 0-based where the source computes with them.  *)
(***************************************************************************)
EXTENDS Integers, Sequences, FiniteSets, TLC

(***************************************************************************)
(* Bounds of the model.                                                    *)
(***************************************************************************)
\* number of raw lines the scanner delivers before the input ends
MaxLines == 5
\* length of the generated entry lines handed to parseEntryLine
MaxEntryLen == 5
\* length of the generated function lines
MaxFuncLen == 4
\* number of comma separated segments after the state in a generated header
MaxSegs == 3

(***************************************************************************)
(* The Go string library, as far as the parser uses it.                    *)
(***************************************************************************)
\* a nil pointer is the empty sequence, a pointer to x the sequence <<x>>
Nil == <<>>

Ptr(x) == <<x>>

\* unicode.IsSpace, restricted to the characters of the model's alphabet
WhiteSpace == {" ", "\t", "\n", "\r"}

DigitVal(c) ==
    CASE c = "0" -> 0 [] c = "1" -> 1 [] c = "2" -> 2 [] c = "3" -> 3
      [] c = "4" -> 4 [] c = "5" -> 5 [] c = "6" -> 6 [] c = "7" -> 7
      [] c = "8" -> 8 [] c = "9" -> 9
      [] c \in {"a", "A"} -> 10 [] c \in {"b", "B"} -> 11
      [] c \in {"c", "C"} -> 12 [] c \in {"d", "D"} -> 13
      [] c \in {"e", "E"} -> 14 [] c \in {"f", "F"} -> 15
      [] OTHER -> 99

\* s[lo:hi] with Go's 0-based, half-open indices (the caller checks the range)
Slice(s, lo, hi) == SubSeq(s, lo + 1, hi)

\* s[lo:]
SliceFrom(s, lo) == SubSeq(s, lo + 1, Len(s))

\* strings.HasPrefix
HasPrefix(s, p) == Len(s) >= Len(p) /\ SubSeq(s, 1, Len(p)) = p

\* strings.Index: 0-based index of the first occurrence of sep, -1 if none
Index(s, sep) ==
    LET hits == {i \in 0..(Len(s) - Len(sep)) : Slice(s, i, i + Len(sep)) = sep}
    IN  IF hits = {} THEN -1 ELSE CHOOSE i \in hits : \A j \in hits : i <= j

\* strings.LastIndexByte
LastIndexByte(s, c) ==
    LET hits == {i \in 0..(Len(s) - 1) : s[i + 1] = c}
    IN  IF hits = {} THEN -1 ELSE CHOOSE i \in hits : \A j \in hits : i >= j

\* strings.Split with a non-empty separator
RECURSIVE Split(_, _)
Split(s, sep) ==
    LET i == Index(s, sep)
    IN  IF i = -1 THEN <<s>>
        ELSE <<Slice(s, 0, i)>> \o Split(SliceFrom(s, i + Len(sep)), sep)

\* strings.Join
RECURSIVE Join(_, _)
Join(parts, sep) ==
    IF Len(parts) = 0 THEN <<>>
    ELSE IF Len(parts) = 1 THEN parts[1]
    ELSE parts[1] \o sep \o Join(Tail(parts), sep)

\* strings.TrimLeft / strings.TrimRight / strings.Trim with a cutset
RECURSIVE TrimLeft(_, _)
TrimLeft(s, cutset) ==
    IF Len(s) > 0 /\ s[1] \in cutset THEN TrimLeft(Tail(s), cutset) ELSE s

RECURSIVE TrimRight(_, _)
TrimRight(s, cutset) ==
    IF Len(s) > 0 /\ s[Len(s)] \in cutset
    THEN TrimRight(SubSeq(s, 1, Len(s) - 1), cutset) ELSE s

Trim(s, cutset) == TrimRight(TrimLeft(s, cutset), cutset)

\* strings.TrimSpace
TrimSpace(s) == Trim(s, WhiteSpace)

\* strings.TrimPrefix
TrimPrefix(s, p) == IF HasPrefix(s, p) THEN SliceFrom(s, Len(p)) ELSE s

\* strings.Fields: the maximal runs of non-space characters
RECURSIVE Fields(_)
Fields(s) ==
    LET t == TrimLeft(s, WhiteSpace)
        ends == {i \in 1..Len(t) : t[i] \in WhiteSpace}
        n == IF ends = {} THEN Len(t)
             ELSE (CHOOSE i \in ends : \A j \in ends : i <= j) - 1
    IN  IF Len(t) = 0 THEN <<>>
        ELSE <<SubSeq(t, 1, n)>> \o Fields(SubSeq(t, n + 1, Len(t)))

\* the value of a digit string in the given base, most significant digit first
RECURSIVE DigitsValue(_, _)
DigitsValue(s, base) ==
    IF Len(s) = 0 THEN 0
    ELSE DigitsValue(SubSeq(s, 1, Len(s) - 1), base) * base + DigitVal(s[Len(s)])

\* strconv.ParseUint(s, base, 64) for base 0 (prefix decides) or base 10,
\* without digit separators: [ok, val]
ParseUint(s, base) ==
    LET lower2 == IF Len(s) >= 3 THEN s[2] ELSE ""
        pref == base = 0 /\ Len(s) > 0 /\ s[1] = "0"
        b == IF ~pref THEN 10
             ELSE IF lower2 \in {"b", "B"} THEN 2
             ELSE IF lower2 \in {"o", "O"} THEN 8
             ELSE IF lower2 \in {"x", "X"} THEN 16
             ELSE 8
        ds == IF ~pref THEN s
              ELSE IF lower2 \in {"b", "B", "o", "O", "x", "X"} THEN SliceFrom(s, 2)
              ELSE SliceFrom(s, 1)
    IN  IF Len(s) = 0 THEN [ok |-> FALSE, val |-> 0]
        ELSE IF \E i \in 1..Len(ds) : DigitVal(ds[i]) >= b
        THEN [ok |-> FALSE, val |-> 0]
        ELSE [ok |-> TRUE, val |-> DigitsValue(ds, b)]

\* strconv.ParseInt(s, base, 64): an optional sign, then ParseUint
ParseInt(s, base) ==
    LET signed == Len(s) > 0 /\ s[1] \in {"+", "-"}
        u == ParseUint(IF signed THEN Tail(s) ELSE s, base)
    IN  IF Len(s) = 0 THEN [ok |-> FALSE, val |-> 0]
        ELSE IF ~u.ok THEN u
        ELSE [ok |-> TRUE, val |-> IF s[1] = "-" THEN 0 - u.val ELSE u.val]

\* strconv.Atoi
Atoi(s) == ParseInt(s, 10)

(***************************************************************************)
(* Literals of the source.                                                 *)
(***************************************************************************)
\* "goroutine"
GoroutineWord == <<"g", "o", "r", "o", "u", "t", "i", "n", "e">>

\* "created by"
CreatedByWord == <<"c", "r", "e", "a", "t", "e", "d", " ", "b", "y">>

\* " locked to thread"
LockedSegment ==
    <<" ", "l", "o", "c", "k", "e", "d", " ", "t", "o", " ", "t", "h", "r", "e", "a", "d">>

\* time.Minute, with durations counted in seconds
Minute == 60

\* the zero values of the Go types
NoCreatedBy == [Function |-> <<>>, File |-> <<>>, Line |-> 0, Entry |-> 0]

NoErr == [kind |-> "none", line |-> 0, arg |-> <<>>]

\* an error value before the deferred function annotates it with the line
Error(kind, arg) == [kind |-> kind, line |-> 0, arg |-> arg]

(***************************************************************************)
(* parseEntryLine: "file:line [entry]".                                    *)
(* The error for a missing colon formats the named result `line` (an       *)
(* int64 that is still 0) with %q, not the text of the line.               *)
(***************************************************************************)
QuotedZero == <<"'", "\\", "x", "0", "0", "'">>

\* the separator parseEntryLine splits the text after the colon on
EntrySep == <<" ">>

parseEntryLine(s) ==
    LET parts == Split(s, <<":">>)
        file == Trim(parts[1], {" ", "\t", "\n"})
        lineAndEntry == Split(parts[2], EntrySep)
        line == ParseInt(lineAndEntry[1], 0)
        entry == ParseInt(lineAndEntry[2], 0)
        fail(e) == [file |-> <<>>, line |-> 0, entry |-> 0, err |-> e]
    IN  IF Len(parts) # 2 THEN fail(Error("expected a colon", QuotedZero))
        ELSE IF ~line.ok
        THEN fail(Error("error parsing line number", lineAndEntry[1]))
        ELSE IF Len(lineAndEntry) > 1
        THEN IF ~entry.ok
             THEN fail(Error("error parsing entry offset", lineAndEntry[2]))
             ELSE [file |-> file, line |-> line.val, entry |-> entry.val,
                   err |-> NoErr]
        ELSE [file |-> file, line |-> line.val, entry |-> 0, err |-> NoErr]

(***************************************************************************)
(* The header line of ParseStacks: "goroutine N [state, ...]:".            *)
(* The loop over the segments after the state reads state[1] (the first    *)
(* of them) where it means the segment s at hand.                          *)
(***************************************************************************)
\* the segment whose fields the loop body reads, for the segment at index i
\* (0-based) of state
TimeSegment(state, i) == state[2]

\* the loop over state[1:]: acc is [locked, timev, err]
RECURSIVE HeaderSegments(_, _, _)
HeaderSegments(state, i, acc) ==
    IF i >= Len(state) THEN acc
    ELSE IF state[i + 1] = LockedSegment
    THEN HeaderSegments(state, i + 1, [acc EXCEPT !.locked = TRUE])
    ELSE LET timeparts == Fields(TimeSegment(state, i))
             val == Atoi(timeparts[1])
         IN  IF Len(timeparts) # 2
             THEN [acc EXCEPT !.err = Error("weirdly formatted time string",
                                            TimeSegment(state, i))]
             ELSE IF ~val.ok
             THEN [acc EXCEPT !.err = Error("strconv.Atoi", timeparts[1])]
             ELSE HeaderSegments(state, i + 1,
                                 [acc EXCEPT !.timev = val.val * Minute])

\* lines 406-441: [panic, err, stack]
ParseHeader(line) ==
    LET parts == Split(line, <<" ">>)
        num == Atoi(parts[2])
        state == Split(Trim(Join(SliceFrom(parts, 2), <<" ">>), {"[", "]", ":"}),
                       <<",">>)
        segs == HeaderSegments(state, 1,
                               [locked |-> FALSE, timev |-> 0, err |-> NoErr])
    IN  IF Len(parts) < 2
        THEN [panic |-> TRUE, err |-> NoErr, stack |-> Nil]
        ELSE IF ~num.ok
        THEN [panic |-> FALSE, err |-> Error("unexpected formatting", line),
              stack |-> Nil]
        ELSE IF segs.err # NoErr
        THEN [panic |-> FALSE, err |-> segs.err, stack |-> Nil]
        ELSE [panic |-> FALSE, err |-> NoErr,
              stack |-> [Number |-> num.val, State |-> state[1],
                         WaitTime |-> segs.timev, Frames |-> <<>>,
                         ThreadLocked |-> segs.locked,
                         CreatedBy |-> NoCreatedBy]]

(***************************************************************************)
(* The function line of ParseStacks (lines 468-477): [panic, frame].       *)
(* strings.Split of the empty text gives one empty parameter.              *)
(***************************************************************************)
\* the parameter list cut out of the text between the parentheses
SplitParams(inner) == Split(inner, <<",", " ">>)

ParseFunctionLine(line) ==
    LET n == LastIndexByte(line, "(")
    IN  IF n > -1
        THEN IF n + 1 > Len(line) - 1
             THEN [panic |-> TRUE, frame |-> Nil]
             ELSE [panic |-> FALSE,
                   frame |-> [Function |-> Slice(line, 0, n),
                              Params |-> SplitParams(Slice(line, n + 1, Len(line) - 1)),
                              File |-> <<>>, Line |-> 0, Entry |-> 0]]
        ELSE [panic |-> FALSE,
              frame |-> [Function |-> line, Params |-> <<>>,
                         File |-> <<>>, Line |-> 0, Entry |-> 0]]

(***************************************************************************)
(* The line prefix.  The patterns of the model are literal texts, which    *)
(* match themselves, and the lone "(", which does not compile.             *)
(***************************************************************************)
\* regexp.Compile succeeds
CompileOK(pattern) == \A i \in 1..Len(pattern) : pattern[i] # "("

\* (*Regexp).Find: the text of the leftmost match, empty when there is none
Find(pattern, line) == IF Index(line, pattern) = -1 THEN <<>> ELSE pattern

\* lines 390-398; re = <<>> stands for the nil *Regexp
StripPrefix(re, line) ==
    IF re = <<>> THEN line
    ELSE LET pref == Find(re, line)
         IN  IF Len(pref) = Len(line) THEN <<>>
             ELSE TrimSpace(SliceFrom(line, Len(pref)))

(***************************************************************************)
(* The raw input lines of the model and the prefix patterns.               *)
(***************************************************************************)
Goroutine(rest) == GoroutineWord \o rest

\* "goroutine 1 [r]:"
Header1 == Goroutine(<<" ", "1", " ", "[", "r", "]", ":">>)

\* "goroutine 2 [r, 5 minutes]:"
Header2 ==
    Goroutine(<<" ", "2", " ", "[", "r", ",", " ", "5", " ",
                "m", "i", "n", "u", "t", "e", "s", "]", ":">>)

\* "goroutine x [r]:", no number
HeaderNoNumber == Goroutine(<<" ", "x", " ", "[", "r", "]", ":">>)

\* "goroutine 3 [r, soon]:", a segment of no known shape
HeaderOddSegment ==
    Goroutine(<<" ", "3", " ", "[", "r", ",", " ", "s", "o", "o", "n", "]", ":">>)

\* "created by g"
CreatedByG == CreatedByWord \o <<" ", "g">>

\* "f(a, b)", "f()", "f(" and "h"
FuncAB == <<"f", "(", "a", ",", " ", "b", ")">>

FuncNoParams == <<"f", "(", ")">>

FuncOpen == <<"f", "(">>

FuncBare == <<"h">>

\* "\ta.go:1 +0x45", "a.go:7", "a.go" and "a.go:x"
EntryFull == <<"\t", "a", ".", "g", "o", ":", "1", " ", "+", "0", "x", "4", "5">>

EntryShort == <<"a", ".", "g", "o", ":", "7">>

EntryNoColon == <<"a", ".", "g", "o">>

EntryBadLine == <<"a", ".", "g", "o", ":", "x">>

\* the log prefix "P " and lines that carry it
LogPrefix == <<"P", " ">>

Lines ==
    { <<>>, Header1, Header2, GoroutineWord, HeaderNoNumber, HeaderOddSegment,
      CreatedByG, FuncAB, FuncNoParams, FuncOpen, FuncBare,
      EntryFull, EntryShort, EntryNoColon, EntryBadLine,
      LogPrefix, LogPrefix \o Header1, LogPrefix \o CreatedByG,
      LogPrefix \o FuncAB, LogPrefix \o EntryShort }

\* the values of linePrefix: none, "P " and the pattern "("
Prefixes == { <<>>, LogPrefix, <<"(">> }

\* the scanner has no further line
EOF == <<"EOF">>

(***************************************************************************)
(* The state of one call of ParseStacks.                                   *)
(***************************************************************************)
VARIABLES
    pc,        \* "start" before the call, "scan" in the loop, "done" after the return
    re,        \* the compiled prefix pattern, <<>> for nil
    nread,     \* the number of lines the scanner has delivered
    lineNo,    \* the local lineNo
    cur,       \* the local cur: the open stack, or Nil
    stacks,    \* the local stacks
    frame,     \* the local frame: the pending frame, or Nil
    ret,       \* the stacks returned (<<>> for nil)
    err,       \* the error returned
    scanned,   \* history: what the last iteration of the loop took from the scanner
    hdrs,      \* history: the texts dispatched as header lines, in order
    arg,       \* the argument of a function applied on its own; for ParseStacks the
               \* text to read, Nil when the input is chosen line by line
    out        \* its result, behind a pointer: Nil before the call

vars == <<pc, re, nread, lineNo, cur, stacks, frame, ret, err, scanned, hdrs,
          arg, out>>

\* the locals and results of ParseStacks
parserVars == <<pc, re, nread, lineNo, cur, stacks, frame, ret, err, scanned, hdrs>>

\* no line was taken inside the iteration
NoCont == <<"none">>

NoScan == [no |-> 0, raw |-> <<>>, cont |-> NoCont]

Init ==
    /\ pc = "start"
    /\ re = <<>>
    /\ nread = 0
    /\ lineNo = 0
    /\ cur = Nil
    /\ stacks = <<>>
    /\ frame = Nil
    /\ ret = <<>>
    /\ err = NoErr
    /\ scanned = NoScan
    /\ hdrs = <<>>
    /\ arg = <<>>
    /\ out = Nil

(***************************************************************************)
(* The deferred function (lines 375-381) and the return statements.        *)
(***************************************************************************)
\* the error the caller receives
Recover(panicked, e, no) ==
    IF panicked THEN [kind |-> "panic", line |-> no, arg |-> <<>>]
    ELSE IF e # NoErr THEN [e EXCEPT !.line = no]
    ELSE e

\* a return that hands the stacks collected so far back with the error
ErrResultPartial(stks) == stks

\* the first result of a `return nil, err`
ErrResult(stks) == <<>>

\* return nil, e  /  a panic in the loop body
Fail(panicked, e, no, stks) ==
    /\ pc' = "done"
    /\ ret' = ErrResult(stks)
    /\ err' = Recover(panicked, e, no)

\* the loop goes on
Continue == pc' = "scan" /\ UNCHANGED <<ret, err>>

(***************************************************************************)
(* ParseStacks.                                                            *)
(***************************************************************************)
\* lines 362-370: the prefix pattern is compiled before anything is read
Compile ==
    /\ pc = "start"
    /\ \E linePrefix \in Prefixes :
         IF linePrefix # <<>> /\ ~CompileOK(linePrefix)
         THEN /\ pc' = "done"
              /\ ret' = <<>>
              /\ err' = Error("failed to compile line prefix regexp", <<>>)
              /\ UNCHANGED re
         ELSE /\ pc' = "scan"
              /\ re' = linePrefix
              /\ UNCHANGED <<ret, err>>
    /\ UNCHANGED <<nread, lineNo, cur, stacks, frame, scanned, hdrs, arg, out>>

\* what the scanner may deliver as the k-th line from here, EOF for the end
\* of the input.  The input is either chosen line by line as it is read
\* (arg is Nil) or the text arg points to.
Feed(k) ==
    IF arg = Nil
    THEN (IF nread + k <= MaxLines THEN Lines ELSE {}) \cup {EOF}
    ELSE IF nread + k <= Len(arg[1].lines) THEN {arg[1].lines[nread + k]}
    ELSE {EOF}

\* lines 387-398: the loop takes a line from the scanner
Scans(raw) ==
    /\ pc = "scan"
    /\ raw # EOF
    /\ lineNo' = lineNo + 1
    /\ UNCHANGED <<arg, out>>

IsHeader(line) == HasPrefix(line, GoroutineWord)

IsCreatedBy(line) == HasPrefix(line, CreatedByWord)

\* a header that opens the next stack without emitting the open one
CloseOnHeaderLost(stks, c) == stks

\* lines 401-404: a header closes the open stack
CloseOnHeader(stks, c) == IF c # Nil THEN Append(stks, c[1]) ELSE stks

\* lines 400-443
HeaderLine ==
    \E raw \in Feed(1) :
      LET line == StripPrefix(re, raw)
          h == ParseHeader(line)
      IN  /\ Scans(raw)
          /\ IsHeader(line)
          /\ nread' = nread + 1
          /\ scanned' = [no |-> nread + 1, raw |-> raw, cont |-> NoCont]
          /\ hdrs' = Append(hdrs, line)
          /\ stacks' = CloseOnHeader(stacks, cur)
          /\ UNCHANGED <<re, frame>>
          /\ IF h.panic \/ h.err # NoErr
             THEN /\ cur' = Nil
                  /\ Fail(h.panic, h.err, lineNo', stacks')
             ELSE /\ cur' = Ptr(h.stack)
                  /\ Continue

\* lines 446-448: a blank line emits the open stack
CloseOnBlank(stks, c) == IF c # Nil THEN Append(stks, c[1]) ELSE stks

\* lines 444-451
BlankLine ==
    \E raw \in Feed(1) :
      LET line == StripPrefix(re, raw)
      IN  /\ Scans(raw)
          /\ ~IsHeader(line)
          /\ line = <<>>
          /\ nread' = nread + 1
          /\ scanned' = [no |-> nread + 1, raw |-> raw, cont |-> NoCont]
          /\ stacks' = CloseOnBlank(stacks, cur)
          /\ cur' = Nil
          /\ Continue
          /\ UNCHANGED <<re, frame, hdrs>>

\* line 458: the text handed to parseEntryLine after a "created by" line
Continuation(pattern, raw) == raw

\* lines 454-467, once the line after "created by" (or the end of the input)
\* has been taken from the scanner
CreatedByTrailer(line, cont) ==
    LET fn == TrimPrefix(line, CreatedByWord \o <<" ">>)
        e == parseEntryLine(Continuation(re, cont))
    IN  IF cont = EOF
        THEN /\ Fail(FALSE, Error("no file info after 'created by' line", <<>>),
                     lineNo', stacks)
             /\ UNCHANGED cur
        ELSE IF e.err # NoErr
        THEN /\ Fail(FALSE, e.err, lineNo', stacks)
             /\ UNCHANGED cur
        ELSE IF cur = Nil
        THEN /\ Fail(TRUE, NoErr, lineNo', stacks)
             /\ UNCHANGED cur
        ELSE /\ cur' = [cur EXCEPT ![1].CreatedBy =
                          [Function |-> fn, File |-> e.file,
                           Line |-> e.line, Entry |-> e.entry]]
             /\ Continue

\* lines 453-467: the line after "created by" is taken from the scanner
\* inside the iteration; lineNo is not advanced for it
CreatedByLine ==
    \E raw \in Feed(1) :
      LET line == StripPrefix(re, raw)
      IN  /\ Scans(raw)
          /\ ~IsHeader(line)
          /\ line # <<>>
          /\ IsCreatedBy(line)
          /\ UNCHANGED <<re, frame, stacks, hdrs>>
          /\ \E cont \in Feed(2) :
               /\ nread' = IF cont = EOF THEN nread + 1 ELSE nread + 2
               /\ scanned' = [no |-> nread + 1, raw |-> raw, cont |-> cont]
               /\ CreatedByTrailer(line, cont)

\* lines 468-478: the first line of a frame
FunctionLine ==
    \E raw \in Feed(1) :
      LET line == StripPrefix(re, raw)
          f == ParseFunctionLine(line)
      IN  /\ frame = Nil
          /\ Scans(raw)
          /\ ~IsHeader(line)
          /\ line # <<>>
          /\ ~IsCreatedBy(line)
          /\ nread' = nread + 1
          /\ scanned' = [no |-> nread + 1, raw |-> raw, cont |-> NoCont]
          /\ UNCHANGED <<re, cur, stacks, hdrs>>
          /\ IF f.panic
             THEN /\ Fail(TRUE, NoErr, lineNo', stacks)
                  /\ UNCHANGED frame
             ELSE /\ frame' = Ptr(f.frame)
                  /\ Continue

\* lines 479-489: the second line of a frame
EntryLine ==
    \E raw \in Feed(1) :
      LET line == StripPrefix(re, raw)
          e == parseEntryLine(line)
      IN  /\ frame # Nil
          /\ Scans(raw)
          /\ ~IsHeader(line)
          /\ line # <<>>
          /\ ~IsCreatedBy(line)
          /\ nread' = nread + 1
          /\ scanned' = [no |-> nread + 1, raw |-> raw, cont |-> NoCont]
          /\ UNCHANGED <<re, stacks, hdrs>>
          /\ IF e.err # NoErr
             THEN /\ Fail(FALSE, e.err, lineNo', stacks)
                  /\ UNCHANGED <<cur, frame>>
             ELSE IF cur = Nil
             THEN /\ Fail(TRUE, NoErr, lineNo', stacks)
                  /\ frame' = [frame EXCEPT ![1].File = e.file, ![1].Line = e.line,
                                            ![1].Entry = e.entry]
                  /\ UNCHANGED cur
             ELSE /\ cur' = [cur EXCEPT ![1].Frames =
                               Append(@, [frame[1] EXCEPT !.File = e.file,
                                                          !.Line = e.line,
                                                          !.Entry = e.entry])]
                  /\ frame' = Nil
                  /\ Continue

\* lines 491-493: the stack still open at the end of the input is emitted
CloseOnEnd(stks, c) == IF c # Nil THEN Append(stks, c[1]) ELSE stks

\* lines 490-495: the scanner has no further line
EndOfInput ==
    /\ pc = "scan"
    /\ EOF \in Feed(1)
    /\ stacks' = CloseOnEnd(stacks, cur)
    /\ pc' = "done"
    /\ ret' = stacks'
    /\ err' = Recover(FALSE, NoErr, lineNo)
    /\ UNCHANGED <<re, nread, lineNo, cur, frame, scanned, hdrs, arg, out>>

Next ==
    \/ Compile
    \/ HeaderLine
    \/ BlankLine
    \/ CreatedByLine
    \/ FunctionLine
    \/ EntryLine
    \/ EndOfInput

Spec == Init /\ [][Next]_vars

(***************************************************************************)
(* The parsing functions applied on their own to generated texts.          *)
(***************************************************************************)
\* all texts of at most n characters over an alphabet
Texts(alphabet, n) == UNION {[1..k -> alphabet] : k \in 0..n}

\* the locals of ParseStacks stay as they are before a call
ParserAtRest ==
    /\ re = <<>>
    /\ nread = 0
    /\ lineNo = 0
    /\ cur = Nil
    /\ stacks = <<>>
    /\ frame = Nil
    /\ ret = <<>>
    /\ err = NoErr
    /\ scanned = NoScan
    /\ hdrs = <<>>

UnchangedAtRest ==
    UNCHANGED <<re, nread, lineNo, cur, stacks, frame, ret, err, scanned, hdrs, arg>>

\* parseEntryLine on every text over these characters
EntryAlphabet == {"a", ":", " ", "\t", "0", "1", "x"}

InitEntry ==
    /\ pc = "parseEntryLine"
    /\ arg \in Texts(EntryAlphabet, MaxEntryLen)
    /\ out = Nil
    /\ ParserAtRest

CallParseEntryLine ==
    /\ pc = "parseEntryLine"
    /\ out' = Ptr(parseEntryLine(arg))
    /\ pc' = "returned"
    /\ UnchangedAtRest

SpecEntry == InitEntry /\ [][CallParseEntryLine]_vars

\* the function line on every text over these characters
FuncAlphabet == {"f", "a", "(", ")", ",", " "}

InitFunc ==
    /\ pc = "functionLine"
    /\ arg \in Texts(FuncAlphabet, MaxFuncLen)
    /\ out = Nil
    /\ ParserAtRest

CallParseFunctionLine ==
    /\ pc = "functionLine"
    /\ out' = Ptr(ParseFunctionLine(arg))
    /\ pc' = "returned"
    /\ UnchangedAtRest

SpecFunc == InitFunc /\ [][CallParseFunctionLine]_vars

\* the header line "goroutine 9 [r<segments>]:" for every list of at most
\* MaxSegs segments of these shapes; arg is the list of segments
Minutes(n) == <<" ", n, " ", "m", "i", "n", "u", "t", "e", "s">>

SegmentShapes ==
    { LockedSegment, Minutes("5"), Minutes("7"), Minutes("x"),
      <<" ", "s", "o", "o", "n">> }

RECURSIVE CommaSegments(_)
CommaSegments(segs) ==
    IF Len(segs) = 0 THEN <<>> ELSE <<",">> \o segs[1] \o CommaSegments(Tail(segs))

HeaderText(segs) ==
    Goroutine(<<" ", "9", " ", "[", "r">>) \o CommaSegments(segs) \o <<"]", ":">>

InitHeader ==
    /\ pc = "headerLine"
    /\ arg \in Texts(SegmentShapes, MaxSegs)
    /\ out = Nil
    /\ ParserAtRest

CallParseHeader ==
    /\ pc = "headerLine"
    /\ out' = Ptr(ParseHeader(HeaderText(arg)))
    /\ pc' = "returned"
    /\ UnchangedAtRest

SpecHeader == InitHeader /\ [][CallParseHeader]_vars

(***************************************************************************)
(* Properties of ParseStacks.                                              *)
(***************************************************************************)
\* the number written in a header line
HeaderNumber(h) == Atoi(Split(h, <<" ">>)[2]).val

\* a line that is neither blank nor a header
Stray(line) == line # <<>> /\ ~IsHeader(line)

C2_OneStackPerHeader ==
    (pc = "done" /\ err = NoErr) =>
        /\ Len(ret) = Len(hdrs)
        /\ \A i \in 1..Len(ret) : ret[i].Number = HeaderNumber(hdrs[i])

\* four lines, three of them headers and one blank, the last one a header:
\* blocks ended by a blank line or a header, and by the end of the input
C2_Witness ==
    /\ pc = "done"
    /\ err = NoErr
    /\ nread = 4
    /\ Len(ret) = 3
    /\ frame = Nil
    /\ IsHeader(StripPrefix(re, scanned.raw))
    /\ ret[1].Number # ret[2].Number

\* C3: while no stack is open and no frame is pending, a line that is
\* neither blank nor a header changes nothing and does not fail the parse.
C3_StrayLineIsNoOp ==
    [][ ( /\ pc = "scan"
          /\ cur = Nil
          /\ frame = Nil
          /\ nread' # nread
          /\ Stray(StripPrefix(re, scanned'.raw)) )
        => ( /\ pc' = "scan"
             /\ cur' = Nil
             /\ frame' = Nil
             /\ stacks' = stacks ) ]_vars

\* C4: ParseStacks always returns; an internal fault comes back as an error,
\* without stacks, that carries the 1-based number of the line the loop was
\* processing.
C4_FaultCitesLine ==
    /\ pc \in {"start", "scan", "done"}
    /\ (pc = "done" /\ err.kind = "panic") =>
           (ret = <<>> /\ err.line = scanned.no)

\* C5: the entry line of a frame that has no colon, at input line L, gives an
\* error that cites line L, whatever blocks precede it.
C5_MissingColonCitesLine ==
    (pc = "done" /\ err.kind = "expected a colon" /\ scanned.cont = NoCont) =>
        err.line = scanned.no

\* C6: a "created by" line that is the last line of the input gives an error,
\* with no stacks, that cites the number of that line.
C6_TruncatedCreatedBy ==
    (pc = "done" /\ scanned.cont = EOF) =>
        /\ err.kind = "no file info after 'created by' line"
        /\ ret = <<>>
        /\ err.line = scanned.no

\* C10: with a prefix pattern configured every raw line is interpreted as
\* its stripped text: a header line, and also the line taken as the
\* continuation of a "created by" line.
C10_PrefixOnEveryLine ==
    /\ (pc = "scan" /\ scanned.cont = NoCont
          /\ IsHeader(StripPrefix(re, scanned.raw))) =>
           cur = Ptr(ParseHeader(StripPrefix(re, scanned.raw)).stack)
    /\ (pc = "scan" /\ scanned.cont \notin {NoCont, EOF}) =>
           LET e == parseEntryLine(StripPrefix(re, scanned.cont))
           IN  /\ e.err = NoErr
               /\ cur # Nil
               /\ cur[1].CreatedBy.File = e.file
               /\ cur[1].CreatedBy.Line = e.line
               /\ cur[1].CreatedBy.Entry = e.entry

(***************************************************************************)
(* Properties of the header line, the function line and parseEntryLine.    *)
(***************************************************************************)
\* a segment "<N> minutes" with integer N
IsMinutes(seg) ==
    LET f == Fields(seg)
    IN  Len(f) = 2 /\ Atoi(f[1]).ok /\ f[2] = <<"m", "i", "n", "u", "t", "e", "s">>

MinutesOf(seg) == Atoi(Fields(seg)[1]).val

\* C7: every segment after the state is handled by its own shape: "locked
\* to thread" sets threadLocked, "<N> minutes" sets waitTime to N minutes,
\* either or both may be absent, and a segment of any other shape fails the
\* parse with an error that names that segment.
C7_SegmentsByOwnShape ==
    out # Nil =>
        LET h == out[1]
            odd == {i \in 1..Len(arg) : arg[i] # LockedSegment /\ ~IsMinutes(arg[i])}
            mins == {i \in 1..Len(arg) : IsMinutes(arg[i])}
        IN  IF odd = {}
            THEN /\ ~h.panic
                 /\ h.err = NoErr
                 /\ h.stack.ThreadLocked = (\E i \in 1..Len(arg) : arg[i] = LockedSegment)
                 /\ IF mins = {} THEN h.stack.WaitTime = 0
                    ELSE \E i \in mins : h.stack.WaitTime = MinutesOf(arg[i]) * Minute
            ELSE /\ ~h.panic
                 /\ h.err # NoErr
                 /\ \E i \in odd : h.err.arg \in {arg[i], Fields(arg[i])[1]}

\* C8: a function line is split at its last "(": the text before it is the
\* function name, the text up to the closing ")" split on ", " is the
\* parameter list; "f()" and a line without "(" both have zero parameters.
C8_FunctionLineSplit ==
    out # Nil =>
        LET n == LastIndexByte(arg, "(")
            inner == Slice(arg, n + 1, Len(arg) - 1)
        IN  /\ n = -1 =>
                  /\ ~out[1].panic
                  /\ out[1].frame.Function = arg
                  /\ out[1].frame.Params = <<>>
            /\ (n > -1 /\ arg[Len(arg)] = ")") =>
                  /\ ~out[1].panic
                  /\ out[1].frame.Function = Slice(arg, 0, n)
                  /\ out[1].frame.Params =
                         IF inner = <<>> THEN <<>> ELSE Split(inner, <<",", " ">>)

\* the number of colons of a text
Colons(s) == Cardinality({i \in 1..Len(s) : s[i] = ":"})

\* C9: parseEntryLine succeeds on every line with exactly one ":" whose first
\* whitespace-separated token after the colon is an integer (and whose second
\* token, if any, is one too), returning the trimmed file, that line number
\* and the value of the second token, or 0 without one; it fails when the
\* line has zero or several ":" or the line number token is no integer.
C9_EntryLineGrammar ==
    out # Nil =>
        LET i == Index(arg, <<":">>)
            toks == Fields(SliceFrom(arg, i + 1))
            lineOK == Len(toks) >= 1 /\ ParseInt(toks[1], 0).ok
            entryOK == Len(toks) >= 2 => ParseInt(toks[2], 0).ok
        IN  /\ (Colons(arg) = 1 /\ lineOK /\ entryOK) =>
                  /\ out[1].err = NoErr
                  /\ out[1].file = Trim(Slice(arg, 0, i), {" ", "\t", "\n"})
                  /\ out[1].line = ParseInt(toks[1], 0).val
                  /\ out[1].entry =
                         IF Len(toks) >= 2 THEN ParseInt(toks[2], 0).val ELSE 0
            /\ (Colons(arg) # 1 \/ (Colons(arg) = 1 /\ ~lineOK)) =>
                  out[1].err # NoErr

(***************************************************************************)
(* Stacks as the analysis functions receive them.  A collection is a list  *)
(* of pointers to distinct stacks: no stack occurs twice in it.            *)
(***************************************************************************)
MaxStacks == 3
MaxFilters == 2

\* strings.Contains
Contains(s, substr) == Index(s, substr) >= 0

\* the verb %d
Itoa(n) ==
    LET DigitChar(d) == <<"0", "1", "2", "3", "4", "5", "6", "7", "8", "9">>[d + 1]
        RECURSIVE UItoa(_)
        UItoa(k) == IF k < 10 THEN <<DigitChar(k)>>
                    ELSE UItoa(k \div 10) \o <<DigitChar(k % 10)>>
    IN IF n < 0 THEN <<"-">> \o UItoa(0 - n) ELSE UItoa(n)

FrameF == [Function |-> <<"f">>, Params |-> <<>>,
           File |-> <<"a", ".", "g", "o">>, Line |-> 1, Entry |-> 0]
FrameG == [Function |-> <<"g">>, Params |-> <<>>,
           File |-> <<"b", ".", "g", "o">>, Line |-> 2, Entry |-> 0]

MkStack(n, st, wait, frames) ==
    [Number |-> n, State |-> st, WaitTime |-> wait, Frames |-> frames,
     ThreadLocked |-> FALSE, CreatedBy |-> NoCreatedBy]

\* the stacks the collections are made of: ties in wait time, in depth and
\* in number, stacks that have not waited, a stack without frames and a
\* stack with one frame twice
StackPool ==
    { MkStack(1, <<"r">>, 0, <<FrameF>>),
      MkStack(2, <<"r">>, 5 * Minute, <<FrameG, FrameF>>),
      MkStack(3, <<"w">>, 5 * Minute, <<FrameF>>),
      MkStack(3, <<"w">>, 10 * Minute, <<>>),
      MkStack(5, <<"r">>, 10 * Minute, <<FrameG>>),
      MkStack(6, <<"r">>, 0, <<FrameF, FrameF>>) }

Collections(n) ==
    {c \in Texts(StackPool, n) : \A i, j \in 1..Len(c) : c[i] = c[j] => i = j}

(***************************************************************************)
(* The filters.  A filter is kept as the call that made it: the            *)
(* constructor, its argument and whether Negate wraps it.                  *)
(***************************************************************************)
HasFrameMatching(pattern) ==
    [kind |-> "HasFrameMatching", pat |-> pattern, d |-> 0, neg |-> FALSE]

MatchState(st) == [kind |-> "MatchState", pat |-> st, d |-> 0, neg |-> FALSE]

TimeGreaterThan(d) ==
    [kind |-> "TimeGreaterThan", pat |-> <<>>, d |-> d, neg |-> FALSE]

Negate(f) == [f EXCEPT !.neg = ~@]

\* a call f(s) of a filter: the body of the closure its constructor returned
Eval(f, s) ==
    LET body ==
          CASE f.kind = "HasFrameMatching" ->
                 \E i \in 1..Len(s.Frames) :
                    \/ Contains(s.Frames[i].Function, f.pat)
                    \/ Contains(s.Frames[i].File \o <<":">>
                                   \o Itoa(s.Frames[i].Line), f.pat)
            [] f.kind = "MatchState" -> s.State = f.pat
            [] f.kind = "TimeGreaterThan" -> s.WaitTime >= f.d
    IN IF f.neg THEN ~body ELSE body

\* a stack passes when some filter accepts it
PassesAny(s, filters) == \E i \in 1..Len(filters) : Eval(filters[i], s)

\* a stack passes when the first filter accepts it
PassesFirst(s, filters) == filters = <<>> \/ Eval(filters[1], s)

\* the inner loop of ApplyFilters: `continue next` at the first filter that
\* rejects the stack
Passes(s, filters) == \A i \in 1..Len(filters) : Eval(filters[i], s)

ApplyFilters(stks, filters) == SelectSeq(stks, LAMBDA s : Passes(s, filters))

FilterPool ==
    { HasFrameMatching(<<"f">>),
      HasFrameMatching(<<"a", ".", "g", "o", ":", "1">>),
      MatchState(<<"r">>),
      TimeGreaterThan(5 * Minute),
      Negate(TimeGreaterThan(5 * Minute)),
      Negate(HasFrameMatching(<<"g">>)) }

(***************************************************************************)
(* sort.Sort and sort.Slice promise an order that agrees with the          *)
(* comparison and nothing about elements that compare equal: every such    *)
(* order is a possible result.                                             *)
(***************************************************************************)
\* less is the comparison, as the set of the pairs <<a, b>> with a before b
SortResults(seq, less) ==
    LET n == Len(seq)
        perms == {q \in [1..n -> 1..n] : \A i, j \in 1..n : q[i] = q[j] => i = j}
        ordered(q) == \A i, j \in 1..n : i < j => <<seq[q[j]], seq[q[i]]>> \notin less
    IN  {[i \in 1..n |-> seq[q[i]]] : q \in {r \in perms : ordered(r)}}

(***************************************************************************)
(* summarize (package main).  The possible results: a panic, or the        *)
(* summaries in one of the orders the sort may leave.                      *)
(***************************************************************************)
summarize(stks) ==
    LET n == Len(stks)
        fn(s) == s.Frames[1].Function
        counts(f) == Cardinality({i \in 1..n : fn(stks[i]) = f})
        first(i) == \A j \in 1..(i - 1) : fn(stks[j]) # fn(stks[i])
        filtered == SelectSeq([i \in 1..n |-> i], first)
        less == {ab \in (1..n) \X (1..n) :
                   counts(fn(stks[ab[1]])) < counts(fn(stks[ab[2]]))}
    IN  IF \E i \in 1..n : Len(stks[i].Frames) = 0
        THEN {[panic |-> TRUE, summaries |-> <<>>]}
        ELSE {[panic |-> FALSE,
               summaries |-> [i \in 1..Len(p) |->
                                [Function |-> fn(stks[p[i]]),
                                 Count |-> counts(fn(stks[p[i]]))]]]
              : p \in SortResults(filtered, less)}

(***************************************************************************)
(* compWaitStats.  A zero min stands for "no minimum yet".                 *)
(***************************************************************************)
compWaitStats(stks) ==
    LET n == Len(stks)
        w(k) == stks[k].WaitTime
        RECURSIVE lo(_), hi(_), sum(_)
        lo(k) == IF k = 0 THEN 0
                 ELSE IF lo(k - 1) = 0 \/ w(k) < lo(k - 1) THEN w(k)
                 ELSE lo(k - 1)
        hi(k) == IF k = 0 THEN 0
                 ELSE IF w(k) > hi(k - 1) THEN w(k) ELSE hi(k - 1)
        sum(k) == IF k = 0 THEN 0 ELSE sum(k - 1) + w(k)
        durations ==
            CHOOSE d \in SortResults([k \in 1..n |-> k],
                                     {ab \in (1..n) \X (1..n) : w(ab[1]) < w(ab[2])})
                   : TRUE
    IN  IF n = 0
        THEN [panic |-> TRUE, Average |-> 0, Max |-> 0, Min |-> 0, Median |-> 0]
        ELSE [panic |-> FALSE, Average |-> sum(n) \div n, Max |-> hi(n),
              Min |-> lo(n), Median |-> w(durations[(n \div 2) + 1])]

(***************************************************************************)
(* suspiciousCheck.  The possible results: what the first loop printed,    *)
(* the stack lists handed to printUnique, and whether an index ran past    *)
(* the end of fcs.                                                         *)
(***************************************************************************)
TopFrames == 20
TopClasses == 5

\* Frame.FrameKey: the call site
FrameKey(f) == <<f.File, f.Line, f.Function>>

suspiciousCheck(stks) ==
    LET RECURSIVE Visits(_)
        \* the (stack, frame) pairs in the order the two loops visit them
        Visits(i) == IF i > Len(stks) THEN <<>>
                     ELSE [j \in 1..Len(stks[i].Frames) |-> <<i, j>>]
                          \o Visits(i + 1)
        fk(h) == FrameKey(stks[h[1]].Frames[h[2]])
        visits == Visits(1)
        keys == {fk(visits[v]) : v \in 1..Len(visits)}
        sharedFrames(k) ==
            LET of == SelectSeq(visits, LAMBDA h : fk(h) = k)
            IN  [v \in 1..Len(of) |-> stks[of[v][1]]]
        count(k) == Len(sharedFrames(k))
        more == {ab \in keys \X keys : count(ab[1]) > count(ab[2])}
        orders == UNION {SortResults(m, more) :
                           m \in {q \in [1..Cardinality(keys) -> keys] :
                                    \A k \in keys : \E i \in DOMAIN q : q[i] = k}}
        upTo(fcs, width) == IF Len(fcs) < width THEN Len(fcs) ELSE width
    IN  {[panic |-> Len(fcs) < TopFrames,
          ranked |-> [i \in 1..upTo(fcs, TopFrames) |->
                        [frameKey |-> fcs[i], count |-> count(fcs[i])]],
          classes |-> IF Len(fcs) < TopFrames THEN <<>>
                      ELSE [i \in 1..upTo(fcs, TopClasses) |->
                              sharedFrames(fcs[i])]]
         : fcs \in orders}

(***************************************************************************)
(* printUnique.  What it prints for each bucket: the count, the wait       *)
(* statistics and the stack the bucket was opened for.                     *)
(***************************************************************************)
\* stacks that are alike when they have a function name in common, or no
\* frames at all
SameishLoose(s, ft) ==
    \/ s.Frames = <<>> /\ ft.Frames = <<>>
    \/ \E i \in 1..Len(s.Frames), j \in 1..Len(ft.Frames) :
          s.Frames[i].Function = ft.Frames[j].Function

\* Stack.Sameish: as many frames, with the same function names in order
Sameish(s, ft) ==
    /\ Len(s.Frames) = Len(ft.Frames)
    /\ \A i \in 1..Len(s.Frames) : s.Frames[i].Function = ft.Frames[i].Function

printUnique(stks) ==
    LET RECURSIVE Bucket(_, _, _)
        \* the loop over the stacks, from the i-th on
        Bucket(i, ftypes, bucketed) ==
            IF i > Len(stks) THEN [ftypes |-> ftypes, bucketed |-> bucketed]
            ELSE LET s == stks[i]
                     found == {x \in 1..Len(ftypes) : Sameish(s, ftypes[x])}
                 IN  IF found # {}
                     THEN Bucket(i + 1, ftypes,
                                 [x \in 1..Len(bucketed) |->
                                    IF x \in found THEN Append(bucketed[x], s)
                                    ELSE bucketed[x]])
                     ELSE Bucket(i + 1, Append(ftypes, s), Append(bucketed, <<s>>))
        b == Bucket(1, <<>>, <<>>)
    IN  [ftypes |-> b.ftypes, bucketed |-> b.bucketed,
         printed |-> [x \in 1..Len(b.ftypes) |->
                        [count |-> Len(b.bucketed[x]),
                         wait |-> compWaitStats(b.bucketed[x]),
                         stack |-> b.ftypes[x]]]]

(***************************************************************************)
(* The functions that take a collection, each called on its own.           *)
(***************************************************************************)
InitCall ==
    /\ pc = "call"
    /\ \E c \in Collections(MaxStacks) :
          \/ \E fs \in Texts(FilterPool, MaxFilters) :
                arg = [fn |-> "ApplyFilters", stacks |-> c, filters |-> fs]
          \/ \E fn \in {"summarize", "compWaitStats", "suspiciousCheck",
                       "printUnique"} :
                arg = [fn |-> fn, stacks |-> c, filters |-> <<>>]
    /\ out = Nil
    /\ ParserAtRest

Returns(fn, results) ==
    /\ pc = "call"
    /\ arg.fn = fn
    /\ \E res \in results : out' = Ptr(res)
    /\ pc' = "returned"
    /\ UnchangedAtRest

CallApplyFilters == Returns("ApplyFilters", {ApplyFilters(arg.stacks, arg.filters)})

CallSummarize == Returns("summarize", summarize(arg.stacks))

CallCompWaitStats == Returns("compWaitStats", {compWaitStats(arg.stacks)})

CallSuspiciousCheck == Returns("suspiciousCheck", suspiciousCheck(arg.stacks))

CallPrintUnique == Returns("printUnique", {printUnique(arg.stacks)})

NextCall ==
    \/ CallApplyFilters
    \/ CallSummarize
    \/ CallCompWaitStats
    \/ CallSuspiciousCheck
    \/ CallPrintUnique

SpecCall == InitCall /\ [][NextCall]_vars

(***************************************************************************)
(* Properties of the filters.                                              *)
(***************************************************************************)
\* the position of a stack in a collection
Pos(c, s) == CHOOSE i \in 1..Len(c) : c[i] = s

Satisfies(s, filters) == \A f \in {filters[i] : i \in 1..Len(filters)} : Eval(f, s)

\* C11: ApplyFilters returns exactly the stacks of its input that every
\* filter accepts, each once and in the order of the input; with no filter it
\* returns every stack.
C11_FilterConjunction ==
    (pc = "returned" /\ arg.fn = "ApplyFilters") =>
        LET in == arg.stacks
            res == out[1]
        IN /\ \A i \in 1..Len(res) :
                 /\ \E j \in 1..Len(in) : in[j] = res[i]
                 /\ Satisfies(res[i], arg.filters)
           /\ \A j \in 1..Len(in) :
                 Satisfies(in[j], arg.filters) =>
                    Cardinality({i \in 1..Len(res) : res[i] = in[j]}) = 1
           /\ \A i, k \in 1..Len(res) : i < k => Pos(in, res[i]) < Pos(in, res[k])
           /\ (arg.filters = <<>> => res = in)

\* two filters, three stacks, one of them rejected by the second filter only
C11_Witness ==
    /\ pc = "returned"
    /\ arg.fn = "ApplyFilters"
    /\ Len(arg.filters) = 2
    /\ Len(arg.stacks) = 3
    /\ Len(out[1]) = 2
    /\ \E j \in 1..3 : /\ Eval(arg.filters[1], arg.stacks[j])
                       /\ ~Eval(arg.filters[2], arg.stacks[j])

\* C12: the order of the filters does not matter, and filtering the result
\* again by the same filter changes nothing.
C12_FilterOrderAndIdempotence ==
    (pc = "returned" /\ arg.fn = "ApplyFilters") =>
        LET fs == arg.filters
        IN /\ Len(fs) = 2 =>
                out[1] = ApplyFilters(arg.stacks, <<fs[2], fs[1]>>)
           /\ ApplyFilters(out[1], fs) = out[1]

\* two different filters that disagree on a stack of the input
C12_Witness ==
    /\ pc = "returned"
    /\ arg.fn = "ApplyFilters"
    /\ Len(arg.filters) = 2
    /\ arg.filters[1] # arg.filters[2]
    /\ \E j \in 1..Len(arg.stacks) :
          /\ ~Eval(arg.filters[1], arg.stacks[j])
          /\ Eval(arg.filters[2], arg.stacks[j])
    /\ out[1] # <<>>

(***************************************************************************)
(* Properties of summarize, compWaitStats and suspiciousCheck.             *)
(***************************************************************************)
Returned(fn) == pc = "returned" /\ arg.fn = fn

\* the stacks of the input that have a frame
FrameBearing == SelectSeq(arg.stacks, LAMBDA s : Len(s.Frames) > 0)

\* one summary per function of a first frame, with the number of stacks
\* that start with it
SummariesOf(stks, summaries) ==
    LET fns == {stks[i].Frames[1].Function : i \in 1..Len(stks)}
    IN  /\ Len(summaries) = Cardinality(fns)
        /\ \A f \in fns :
              \E i \in 1..Len(summaries) :
                 /\ summaries[i].Function = f
                 /\ summaries[i].Count =
                       Cardinality({j \in 1..Len(stks) :
                                      stks[j].Frames[1].Function = f})

RECURSIVE SumCounts(_)
SumCounts(summaries) ==
    IF summaries = <<>> THEN 0
    ELSE summaries[1].Count + SumCounts(Tail(summaries))

\* C15: summarize does not crash on a collection that holds a stack without
\* frames; it leaves that stack out and summarizes the others.
C15_ZeroFrameStackSummarized ==
    (Returned("summarize") /\ Len(FrameBearing) < Len(arg.stacks)) =>
        /\ ~out[1].panic
        /\ SummariesOf(FrameBearing, out[1].summaries)

\* C16: summarize returns one record per distinct function of a first frame,
\* each with the number of input stacks that start with that function, and
\* the counts add up to the number of input stacks that have a frame.
C16_SummaryCounts ==
    Returned("summarize") =>
        /\ ~out[1].panic
        /\ SummariesOf(FrameBearing, out[1].summaries)
        /\ SumCounts(out[1].summaries) = Len(FrameBearing)

\* C17: for a non-empty class, whatever its wait times (zero included),
\* min <= mean <= max and min <= median <= max.
C17_StatsOrdered ==
    (Returned("compWaitStats") /\ arg.stacks # <<>>) =>
        /\ ~out[1].panic
        /\ out[1].Min <= out[1].Average
        /\ out[1].Average <= out[1].Max
        /\ out[1].Min <= out[1].Median
        /\ out[1].Median <= out[1].Max

\* C18: on an empty collection, or one with fewer distinct frame keys than
\* the report is wide, suspiciousCheck finishes without a fault and reports
\* no more keys and classes than there are.
C18_ShortReportNoFault ==
    Returned("suspiciousCheck") =>
        LET keys == UNION {{FrameKey(arg.stacks[i].Frames[j]) :
                              j \in 1..Len(arg.stacks[i].Frames)} :
                           i \in 1..Len(arg.stacks)}
        IN  Cardinality(keys) < TopFrames =>
               /\ ~out[1].panic
               /\ Len(out[1].ranked) <= Cardinality(keys)
               /\ Len(out[1].classes) <= Cardinality(keys)

(***************************************************************************)
(* main (package main): the flags, the sort, the filters, the output.      *)
(***************************************************************************)
MaxArgs == 2

\* time.ParseDuration for whole numbers of hours, minutes and seconds (the
\* model counts durations in seconds): [ok, val]
ParseDuration(s) ==
    LET signed == Len(s) > 0 /\ s[1] \in {"+", "-"}
        body == IF signed THEN Tail(s) ELSE s
        digit(c) == DigitVal(c) < 10
        \* the length of the longest prefix of t made of (non-)digits
        run(t, d) == CHOOSE n \in 0..Len(t) :
                        /\ \A j \in 1..n : digit(t[j]) = d
                        /\ n < Len(t) => digit(t[n + 1]) # d
        unit(u) == CASE u = <<"h">> -> 60 * Minute
                     [] u = <<"m">> -> Minute
                     [] u = <<"s">> -> 1
                     [] OTHER -> 0
        RECURSIVE Groups(_)
        Groups(t) ==
            IF t = <<>> THEN [ok |-> TRUE, val |-> 0]
            ELSE LET nd == run(t, TRUE)
                     nu == run(SubSeq(t, nd + 1, Len(t)), FALSE)
                     u == unit(SubSeq(t, nd + 1, nd + nu))
                     rest == Groups(SubSeq(t, nd + nu + 1, Len(t)))
                 IN  IF nd = 0 \/ u = 0 \/ ~rest.ok
                     THEN [ok |-> FALSE, val |-> 0]
                     ELSE [ok |-> TRUE,
                           val |-> DigitsValue(SubSeq(t, 1, nd), 10) * u + rest.val]
        g == Groups(body)
    IN  IF body = <<"0">> THEN [ok |-> TRUE, val |-> 0]
        ELSE IF body = <<>> \/ ~g.ok THEN [ok |-> FALSE, val |-> 0]
        ELSE [ok |-> TRUE, val |-> IF s[1] = "-" THEN 0 - g.val ELSE g.val]

\* comparators that put the larger key first
CompFuncDescending(name, a, b) ==
    CASE name = "CompWaitTime" -> a.WaitTime > b.WaitTime
      [] name = "CompDepth" -> Len(a.Frames) > Len(b.Frames)
      [] name = "CompGoroNum" -> a.Number > b.Number

\* the comparators of package stacks, by name
CompFunc(name, a, b) ==
    CASE name = "CompWaitTime" -> a.WaitTime < b.WaitTime
      [] name = "CompDepth" -> Len(a.Frames) < Len(b.Frames)
      [] name = "CompGoroNum" -> a.Number < b.Number

\* the locals of main before the first argument is read
Locals ==
    [filters |-> <<>>, compfunc |-> "CompWaitTime", outputType |-> "full",
     formatType |-> "default", fname |-> <<"-">>, linePrefix |-> <<>>,
     repl |-> FALSE, exit |-> FALSE, panic |-> FALSE,
     stacks |-> <<>>, printed |-> <<>>, summaries |-> <<>>, sus |-> <<>>]

\* one round of the loop over os.Args[1:]
Flag(a, l) ==
    LET parts == Split(a, <<"=">>)
        key == parts[1]
        val == IF Len(parts) = 2 THEN parts[2] ELSE <<>>
        filter(f) == [l EXCEPT !.filters = Append(@, f)]
        exit == [l EXCEPT !.exit = TRUE]
        d == ParseDuration(val)
    IN  IF ~HasPrefix(a, <<"-">>) THEN [l EXCEPT !.fname = a]
        ELSE CASE key \in {<<"-", "-", "f", "r", "a", "m", "e", "-", "m", "a", "t", "c", "h">>, <<"-", "-", "f", "m">>} -> filter(HasFrameMatching(val))
          [] key = <<"-", "-", "w", "a", "i", "t", "-", "m", "o", "r", "e", "-", "t", "h", "a", "n">> ->
               IF ~d.ok THEN exit ELSE filter(TimeGreaterThan(d.val))
          [] key = <<"-", "-", "w", "a", "i", "t", "-", "l", "e", "s", "s", "-", "t", "h", "a", "n">> ->
               IF ~d.ok THEN exit ELSE filter(Negate(TimeGreaterThan(d.val)))
          [] key \in {<<"-", "-", "f", "r", "a", "m", "e", "-", "n", "o", "t", "-", "m", "a", "t", "c", "h">>, <<"-", "-", "f", "n", "m">>} ->
               filter(Negate(HasFrameMatching(val)))
          [] key = <<"-", "-", "s", "t", "a", "t", "e", "-", "m", "a", "t", "c", "h">> -> filter(MatchState(val))
          [] key = <<"-", "-", "s", "t", "a", "t", "e", "-", "n", "o", "t", "-", "m", "a", "t", "c", "h">> -> filter(Negate(MatchState(val)))
          [] key = <<"-", "-", "s", "o", "r", "t">> ->
               IF Len(parts) < 2 THEN [l EXCEPT !.panic = TRUE]
               ELSE CASE parts[2] = <<"g", "o", "r", "o", "n", "u", "m">> -> [l EXCEPT !.compfunc = "CompGoroNum"]
                      [] parts[2] = <<"s", "t", "a", "c", "k", "s", "i", "z", "e">> -> [l EXCEPT !.compfunc = "CompDepth"]
                      [] parts[2] = <<"w", "a", "i", "t", "t", "i", "m", "e">> -> [l EXCEPT !.compfunc = "CompWaitTime"]
                      [] OTHER -> exit
          [] key = <<"-", "-", "l", "i", "n", "e", "-", "p", "r", "e", "f", "i", "x">> -> [l EXCEPT !.linePrefix = val]
          [] key = <<"-", "-", "r", "e", "p", "l">> -> [l EXCEPT !.repl = TRUE]
          [] key = <<"-", "-", "o", "u", "t", "p", "u", "t">> ->
               CASE val = <<"f", "u", "l", "l">> -> [l EXCEPT !.outputType = "full"]
                 [] val = <<"t", "o", "p">> -> [l EXCEPT !.outputType = "top"]
                 [] val = <<"s", "u", "m", "m", "a", "r", "y">> -> [l EXCEPT !.outputType = "summary"]
                 [] OTHER -> exit
          [] key \in {<<"-", "-", "s", "u", "m", "m", "a", "r", "y">>, <<"-", "s">>} -> [l EXCEPT !.outputType = "summary"]
          [] key \in {<<"-", "-", "j", "s", "o", "n">>, <<"-", "j">>} -> [l EXCEPT !.formatType = "json"]
          [] key \in {<<"-", "-", "s", "u", "s", "p", "i", "c", "i", "o", "u", "s">>, <<"-", "-", "s", "u", "s">>} -> [l EXCEPT !.outputType = "sus"]
          [] OTHER -> l

\* the loop over the arguments; os.Exit and a panic end it
RECURSIVE Flags(_, _)
Flags(args, l) ==
    IF args = <<>> \/ l.exit \/ l.panic THEN l
    ELSE Flags(Tail(args), Flag(args[1], l))

WaitMoreThan5m == <<"-", "-", "w", "a", "i", "t", "-", "m", "o", "r", "e", "-", "t", "h", "a", "n", "=", "5", "m">>
WaitLessThan300s == <<"-", "-", "w", "a", "i", "t", "-", "l", "e", "s", "s", "-", "t", "h", "a", "n", "=", "3", "0", "0", "s">>

ArgPool ==
    { WaitMoreThan5m, WaitLessThan300s,
      <<"-", "-", "w", "a", "i", "t", "-", "m", "o", "r", "e", "-", "t", "h", "a", "n", "=", "x">>,
      <<"-", "-", "f", "n", "m", "=", "g">>,
      <<"-", "-", "s", "o", "r", "t", "=", "g", "o", "r", "o", "n", "u", "m">>,
      <<"-", "-", "s", "o", "r", "t", "=", "s", "t", "a", "c", "k", "s", "i", "z", "e">>,
      <<"-", "s">>,
      <<"-", "-", "s", "u", "s">> }

\* the arguments, and the stacks ParseStacks is going to return
InitMain ==
    /\ pc = "main"
    /\ \E as \in Texts(ArgPool, MaxArgs), c \in Collections(MaxStacks) :
          arg = [args |-> as, parsed |-> c]
    /\ out = Nil
    /\ ParserAtRest

\* lines 50-137: without arguments, or with -h first, main prints the help
\* and returns
MainFlags ==
    /\ pc = "main"
    /\ LET help == arg.args = <<>> \/ arg.args[1] \in {<<"-", "h">>, <<"-", "-", "h", "e", "l", "p">>}
           l == IF help THEN [Locals EXCEPT !.exit = TRUE]
                ELSE Flags(arg.args, Locals)
       IN  /\ out' = Ptr(l)
           /\ pc' = IF l.exit \/ l.panic THEN "exited" ELSE "sort"
    /\ UnchangedAtRest

\* lines 153-164: the parsed stacks are sorted in place
MainSort ==
    /\ pc = "sort"
    /\ LET stks == {arg.parsed[i] : i \in 1..Len(arg.parsed)}
           less == {ab \in stks \X stks : CompFunc(out[1].compfunc, ab[1], ab[2])}
       IN  \E p \in SortResults(arg.parsed, less) :
              out' = Ptr([out[1] EXCEPT !.stacks = p])
    /\ pc' = "output"
    /\ UnchangedAtRest

\* lines 174-197
MainOutput ==
    /\ pc = "output"
    /\ LET l == out[1]
           stks == ApplyFilters(l.stacks, l.filters)
           after(m) == IF m.repl /\ ~m.panic /\ ~m.exit THEN "repl" ELSE "exited"
           done(m) == out' = Ptr(m) /\ pc' = after(m)
       IN  CASE l.outputType = "full" ->
                  done([l EXCEPT !.stacks = stks, !.printed = stks])
             [] l.outputType = "summary" ->
                  \E res \in summarize(stks) :
                     done([l EXCEPT !.stacks = stks, !.panic = res.panic,
                                    !.summaries = res.summaries])
             [] l.outputType = "sus" ->
                  \E res \in suspiciousCheck(ApplyFilters(stks, l.filters)) :
                     done([l EXCEPT !.stacks = stks, !.panic = res.panic,
                                    !.sus = res.ranked])
             [] OTHER -> done([l EXCEPT !.stacks = stks, !.exit = TRUE])
    /\ UnchangedAtRest

NextMain ==
    \/ MainFlags
    \/ MainSort
    \/ MainOutput

SpecMain == InitMain /\ [][NextMain]_vars

(***************************************************************************)
(* Properties of main.                                                     *)
(***************************************************************************)
Args == {arg.args[i] : i \in 1..Len(arg.args)}

Printed == pc = "exited" /\ ~out[1].exit /\ ~out[1].panic /\ out[1].outputType = "full"

\* C13: with --wait-more-than=d every printed stack has waited strictly
\* longer than d, and with --wait-less-than=d strictly shorter than d.
C13_WaitBoundsStrict ==
    Printed =>
        \A i \in 1..Len(out[1].printed) :
           /\ WaitMoreThan5m \in Args => out[1].printed[i].WaitTime > 5 * Minute
           /\ WaitLessThan300s \in Args => out[1].printed[i].WaitTime < 300

\* C14: the sort keeps stacks that compare equal under the comparator in
\* their input order, for each of the three comparators.
C14_SortStable ==
    pc = "output" =>
        LET in == arg.parsed
            res == out[1].stacks
            less(a, b) == CompFunc(out[1].compfunc, a, b)
        IN  \A i, j \in 1..Len(res) :
               (i < j /\ ~less(res[i], res[j]) /\ ~less(res[j], res[i])) =>
                  Pos(in, res[i]) < Pos(in, res[j])

(***************************************************************************)
(* The String methods of package stacks, and formatStacks of package main  *)
(* applied to the stacks parsed from one well-formed block.                *)
(***************************************************************************)
MaxFrames == 2

\* the verb %+#x
Hex(n) ==
    LET HexChar(d) == <<"0", "1", "2", "3", "4", "5", "6", "7", "8", "9",
                        "a", "b", "c", "d", "e", "f">>[d + 1]
        RECURSIVE Digits(_)
        Digits(k) == IF k < 16 THEN <<HexChar(k)>>
                     ELSE Digits(k \div 16) \o <<HexChar(k % 16)>>
    IN  IF n < 0 THEN <<"-", "0", "x">> \o Digits(0 - n)
        ELSE <<"+", "0", "x">> \o Digits(n)

\* Frame.String
FrameString(f) ==
    f.Function \o <<"(">> \o Join(f.Params, <<",", " ">>) \o <<")", "\n">>
    \o <<"\t">> \o f.File \o <<":">> \o Itoa(f.Line)
    \o (IF f.Entry # 0 THEN <<" ">> \o Hex(f.Entry) ELSE <<>>)

\* CreatedBy.String
CreatedByString(c) ==
    CreatedByWord \o <<" ">> \o c.Function \o <<"\n">>
    \o <<"\t">> \o c.File \o <<":">> \o Itoa(c.Line)
    \o (IF c.Entry # 0 THEN <<" ">> \o Hex(c.Entry) ELSE <<>>)

\* a rendering that writes the time clause whatever the wait time
StackStringWithTime(s) ==
    LET RECURSIVE Frames(_)
        Frames(fs) == IF fs = <<>> THEN <<>>
                      ELSE FrameString(fs[1]) \o <<"\n">> \o Frames(Tail(fs))
    IN  GoroutineWord \o <<" ">> \o Itoa(s.Number) \o <<" ", "[">> \o s.State
        \o <<",", " ">> \o Itoa(s.WaitTime \div Minute)
        \o <<" ", "m", "i", "n", "u", "t", "e", "s">> \o <<"]", ":", "\n">>
        \o Frames(s.Frames)
        \o CreatedByString(s.CreatedBy) \o <<"\n">>

\* Stack.String
StackString(s) ==
    LET \* int(s.WaitTime.Minutes()): the whole minutes, rounded towards zero
        waitTime == IF s.WaitTime < 0 THEN 0 - ((0 - s.WaitTime) \div Minute)
                    ELSE s.WaitTime \div Minute
        state == IF waitTime # 0
                 THEN s.State \o <<",", " ">> \o Itoa(waitTime)
                      \o <<" ", "m", "i", "n", "u", "t", "e", "s">>
                 ELSE s.State
        RECURSIVE Frames(_)
        Frames(fs) == IF fs = <<>> THEN <<>>
                      ELSE FrameString(fs[1]) \o <<"\n">> \o Frames(Tail(fs))
    IN  GoroutineWord \o <<" ">> \o Itoa(s.Number) \o <<" ", "[">> \o state
        \o <<"]", ":", "\n">>
        \o Frames(s.Frames)
        \o CreatedByString(s.CreatedBy) \o <<"\n">>

\* the well-formed blocks: a header "goroutine 9 [r...]:" with or without a
\* time clause and a thread lock, at most MaxFrames frames, with or without
\* a "created by" trailer and a closing blank line; each with its text
Blocks ==
    LET shapes == [params : {<<>>, <<"a", ",", " ", "b">>}, entry : BOOLEAN]
        header(b) ==
            HeaderText((IF b.minutes # Nil THEN <<Minutes(b.minutes[1])>> ELSE <<>>)
                       \o (IF b.locked THEN <<LockedSegment>> ELSE <<>>))
        entry(e) == IF e THEN EntryFull ELSE SubSeq(EntryFull, 1, 7)
        RECURSIVE frames(_)
        frames(fs) ==
            IF fs = <<>> THEN <<>>
            ELSE << <<"f", "(">> \o fs[1].params \o <<")">>, entry(fs[1].entry) >>
                 \o frames(Tail(fs))
        text(b) == <<header(b)>> \o frames(b.frames)
                   \o (IF b.createdBy THEN <<CreatedByG, EntryFull>> ELSE <<>>)
                   \o (IF b.blank THEN << <<>> >> ELSE <<>>)
    IN  {[block |-> b, lines |-> text(b)] :
           b \in [minutes : {Nil, Ptr("0"), Ptr("5")}, locked : BOOLEAN,
                  frames : Texts(shapes, MaxFrames), createdBy : BOOLEAN,
                  blank : BOOLEAN]}

InitRender ==
    /\ pc = "start"
    /\ ParserAtRest
    /\ \E b \in Blocks : arg = Ptr(b)
    /\ out = Nil

\* formatStacks of the default formatter: one text per stack
Render ==
    /\ pc = "done"
    /\ err = NoErr
    /\ out' = Ptr([i \in 1..Len(ret) |-> StackString(ret[i])])
    /\ pc' = "printed"
    /\ UnchangedAtRest

NextRender ==
    \/ Next
    \/ Render

SpecRender == InitRender /\ [][NextRender]_vars

(***************************************************************************)
(* Properties of the rendering.                                            *)
(***************************************************************************)
\* the lines of the text printed for the only stack of the block
RenderedLines == Split(out[1][1], <<"\n">>)

\* C19: for a well-formed block, the rendering of the parsed stack starts
\* with a header of the same state and the same "N minutes" clause (no clause
\* when the wait time is zero), followed by the function, params, file and
\* line of every frame, in order.
C19_RenderRoundTrip ==
    pc = "printed" =>
        LET b == arg[1].block
            in == arg[1].lines
            clause == IF b.minutes \in {Nil, Ptr("0")} THEN <<>>
                      ELSE <<Minutes(b.minutes[1])>>
        IN  /\ Len(out[1]) = 1
            /\ RenderedLines[1] = HeaderText(clause)
            /\ \A k \in 1..Len(b.frames) :
                  /\ RenderedLines[2 * k] = in[2 * k]
                  /\ RenderedLines[2 * k + 1] = in[2 * k + 1]

\* a block with a time clause, a thread lock and two frames has been printed
C19_Witness ==
    /\ pc = "printed"
    /\ arg[1].block.minutes = Ptr("5")
    /\ arg[1].block.locked
    /\ Len(arg[1].block.frames) = 2
    /\ arg[1].block.frames[1] # arg[1].block.frames[2]

\* C20: the rendering has a "created by" trailer exactly when the block had
\* a "created by" line.
C20_TrailerIffCreatedBy ==
    pc = "printed" =>
        (Contains(out[1][1], CreatedByWord) <=> arg[1].block.createdBy)

(***************************************************************************)
(* The pending frame at block boundaries.                                  *)
(***************************************************************************)
\* C21: a pending frame never survives a block boundary: while no stack is
\* open, no frame is pending.
C21_NoPendingFrameWhenIdle ==
    (pc = "scan" /\ cur = Nil) => frame = Nil

(***************************************************************************)
(* The prefix removal of ParseStacks applied on its own, with the pattern  *)
(* "P " and every line over a few characters.                              *)
(***************************************************************************)
MaxStripLen == 4

InitStrip ==
    /\ pc = "stripPrefix"
    /\ arg \in Texts({"P", " ", "a"}, MaxStripLen)
    /\ out = Nil
    /\ ParserAtRest

CallStripPrefix ==
    /\ pc = "stripPrefix"
    /\ out' = Ptr(StripPrefix(LogPrefix, arg))
    /\ pc' = "returned"
    /\ UnchangedAtRest

SpecStrip == InitStrip /\ [][CallStripPrefix]_vars

\* C22: from a line the pattern does not match entirely, only a match that
\* begins the line is removed, and the white space around the remainder; a
\* line the pattern matches further on loses no other character.
C22_OnlyLeadingMatchRemoved ==
    (pc = "returned" /\ arg # LogPrefix) =>
        out[1] = TrimSpace(IF HasPrefix(arg, LogPrefix)
                           THEN SliceFrom(arg, Len(LogPrefix)) ELSE arg)

(***************************************************************************)
(* Properties of the ranking, the buckets and the order of the summaries.  *)
(***************************************************************************)
\* the stacks of the input that have a frame with this key
StacksWith(key) ==
    {i \in 1..Len(arg.stacks) :
       \E j \in 1..Len(arg.stacks[i].Frames) :
          FrameKey(arg.stacks[i].Frames[j]) = key}

\* C23: the count that ranks a frame key is the number of distinct stacks
\* that have a frame with that key, also when a stack has it several times,
\* and the keys are ranked by that count in descending order.
C23_RankByDistinctStacks ==
    Returned("suspiciousCheck") =>
        LET ranked == out[1].ranked
        IN  /\ \A i \in 1..Len(ranked) :
                  ranked[i].count = Cardinality(StacksWith(ranked[i].frameKey))
            /\ \A i, j \in 1..Len(ranked) :
                  i < j => ranked[i].count >= ranked[j].count

\* same number of frames and the same function names in order
SameShape(a, b) ==
    /\ Len(a.Frames) = Len(b.Frames)
    /\ \A i \in 1..Len(a.Frames) : a.Frames[i].Function = b.Frames[i].Function

\* C24: the buckets of printUnique are a partition of its input: every stack
\* is in exactly one bucket, once; two stacks share a bucket exactly when
\* they are Sameish; and each bucket is what first-fit bucketing against one
\* representative per class gives: the stacks of the class of its first
\* stack, in input order, the buckets in the order of their first stacks.
C24_BucketsPartition ==
    Returned("printUnique") =>
        LET in == arg.stacks
            bs == out[1].bucketed
            holds(x, s) == \E k \in 1..Len(bs[x]) : bs[x][k] = s
        IN  /\ \A i \in 1..Len(in) :
                  Cardinality({<<x, k>> \in (1..Len(bs)) \X (1..Len(in)) :
                                 k <= Len(bs[x]) /\ bs[x][k] = in[i]}) = 1
            /\ \A i, j \in 1..Len(in) :
                  (\E x \in 1..Len(bs) : holds(x, in[i]) /\ holds(x, in[j]))
                     <=> SameShape(in[i], in[j])
            /\ \A x \in 1..Len(bs) :
                  /\ bs[x] = SelectSeq(in, LAMBDA s : SameShape(s, bs[x][1]))
                  /\ out[1].ftypes[x] = bs[x][1]
            /\ \A x, y \in 1..Len(bs) :
                  x < y => Pos(in, bs[x][1]) < Pos(in, bs[y][1])

\* three stacks in two buckets, the bucket of two opened first
C24_Witness ==
    /\ Returned("printUnique")
    /\ Len(arg.stacks) = 3
    /\ Len(out[1].bucketed) = 2
    /\ Len(out[1].bucketed[1]) = 2
    /\ out[1].bucketed[1][2] = arg.stacks[3]

\* C25: the summaries are in ascending order of count, and those of equal
\* count in the order in which their functions first occur in the input.
C25_SummaryOrder ==
    (Returned("summarize") /\ ~out[1].panic) =>
        LET ss == out[1].summaries
            firstOf(f) == CHOOSE i \in 1..Len(arg.stacks) :
                             /\ arg.stacks[i].Frames[1].Function = f
                             /\ \A j \in 1..(i - 1) :
                                   arg.stacks[j].Frames[1].Function # f
        IN  \A i, j \in 1..Len(ss) :
               i < j => /\ ss[i].Count <= ss[j].Count
                        /\ ss[i].Count = ss[j].Count =>
                              firstOf(ss[i].Function) < firstOf(ss[j].Function)

(***************************************************************************)
(* The order of sorting and filtering in main.                             *)
(***************************************************************************)
\* the sort key the arguments select: the last --sort flag, else wait time
SortKey(s) ==
    LET sorts == {i \in 1..Len(arg.args) :
                    HasPrefix(arg.args[i], <<"-", "-", "s", "o", "r", "t", "=">>)}
        last == CHOOSE i \in sorts : \A j \in sorts : j <= i
        by == IF sorts = {} THEN <<"w">> ELSE SubSeq(arg.args[last], 8, 8)
    IN  CASE by = <<"g">> -> s.Number
          [] by = <<"s">> -> Len(s.Frames)
          [] OTHER -> s.WaitTime

NonDecreasing(stks) ==
    \A i, j \in 1..Len(stks) : i < j => SortKey(stks[i]) <= SortKey(stks[j])

\* C26: in full output mode main sorts the whole parsed collection, then
\* filters; what it prints is the parsed stacks that pass every filter, each
\* once, in non-decreasing order of the selected key (wait time by default).
C26_SortThenFilter ==
    /\ pc = "output" =>
          /\ Len(out[1].stacks) = Len(arg.parsed)
          /\ \A i \in 1..Len(arg.parsed) :
                \E j \in 1..Len(out[1].stacks) : out[1].stacks[j] = arg.parsed[i]
          /\ NonDecreasing(out[1].stacks)
    /\ Printed =>
          /\ \A i \in 1..Len(arg.parsed) :
                Cardinality({j \in 1..Len(out[1].printed) :
                               out[1].printed[j] = arg.parsed[i]})
                   = IF Satisfies(arg.parsed[i], out[1].filters) THEN 1 ELSE 0
          /\ \A j \in 1..Len(out[1].printed) :
                \E i \in 1..Len(arg.parsed) : arg.parsed[i] = out[1].printed[j]
          /\ NonDecreasing(out[1].printed)

\* three stacks parsed out of order, one of them filtered away, two printed
C26_Witness ==
    /\ Printed
    /\ Len(arg.parsed) = 3
    /\ ~NonDecreasing(arg.parsed)
    /\ out[1].filters # <<>>
    /\ Len(out[1].printed) = 2

(***************************************************************************)
(* runRepl (package main).  out points to its locals stk, ops and cur,     *)
(* with the word of the last command, the number of commands read and      *)
(* whether a command has panicked.  undo is history: the working sets that *)
(* were current before the filter commands not yet undone.                 *)
(***************************************************************************)
MaxCommands == 3

\* the lines typed at the prompt
CommandPool ==
    { <<"f", "m", " ", "f">>, <<"f", "n", "m", " ", "g">>, <<"f", "m", " ", "a", ".", "g", "o", ":", "1", " ", "g">>, <<"p", "o", "p">>, <<"s">>, <<"p">>, <<"p", " ", "1">>, <<"d", "i", "f", "f">>,
      <<"s", "u", "s">>, <<"f", "r", "a", "m", "e", "s", "t", "a", "t">>, <<"u", "u">>, <<"x">> }

\* lines 405-417
InitRepl ==
    /\ pc = "repl"
    /\ \E c \in Collections(MaxStacks) : arg = [input |-> c]
    /\ out = Ptr([stk |-> <<arg.input>>, ops |-> << <<".">> >>, cur |-> arg.input,
                  undo |-> <<>>, last |-> Nil, n |-> 0, panic |-> FALSE])
    /\ ParserAtRest

\* one round of the loop at lines 418-486: the line is read and split, the
\* command leaves the locals as r
ReplStep(text, r) ==
    /\ pc = "repl"
    /\ out[1].n < MaxCommands
    /\ out' = Ptr([r EXCEPT !.last = Ptr(Split(text, <<" ">>)[1]), !.n = @ + 1])
    /\ pc' = IF r.panic THEN "crashed" ELSE "repl"
    /\ UnchangedAtRest

\* a filter command that records the working set but not the operation
PushWithoutOp(r, text, filtered) ==
    [r EXCEPT !.cur = filtered, !.stk = Append(@, filtered),
              !.undo = Append(@, r.cur)]

\* lines 428-430 and 438-440
Push(r, text, filtered) ==
    [r EXCEPT !.cur = filtered, !.stk = Append(@, filtered),
              !.ops = Append(@, text), !.undo = Append(@, r.cur)]

\* a pop that drops the top entry and keeps the working set
PopKeepsCur(r) ==
    IF Len(r.stk) > 1
    THEN [r EXCEPT !.stk = SubSeq(@, 1, Len(@) - 1),
                   !.ops = SubSeq(@, 1, Len(@) - 1),
                   !.undo = SubSeq(@, 1, Len(@) - 1)]
    ELSE r

\* lines 468-474
Pop(r) ==
    IF Len(r.stk) > 1
    THEN [r EXCEPT !.stk = SubSeq(@, 1, Len(@) - 1),
                   !.ops = SubSeq(@, 1, Len(@) - 1),
                   !.cur = r.stk[Len(r.stk) - 1],
                   !.undo = SubSeq(@, 1, Len(@) - 1)]
    ELSE r

\* an inspection that leaves the working set in reverse order
InspectReversing(word, r) ==
    [r EXCEPT !.cur = [i \in 1..Len(@) |-> @[Len(@) + 1 - i]]]

\* lines 441-467 and 475-481: the commands that print; summarize and
\* suspiciousCheck may panic, and nothing in runRepl recovers
Inspect(word, r) ==
    CASE word \in {<<"s">>, <<"s", "u", "m", "m", "a", "r", "y">>, <<"s", "u", "m">>} ->
           [r EXCEPT !.panic = \E res \in summarize(r.cur) : res.panic]
      [] word = <<"s", "u", "s">> ->
           [r EXCEPT !.panic = \E res \in suspiciousCheck(r.cur) : res.panic]
      [] OTHER -> r

FilterWords == {<<"f", "m">>, <<"f", "r", "a", "m", "e", "-", "m", "a", "t", "c", "h">>, <<"f", "n", "m">>, <<"f", "r", "a", "m", "e", "-", "n", "o", "t", "-", "m", "a", "t", "c", "h">>}

InspectWords ==
    {<<"s">>, <<"s", "u", "m", "m", "a", "r", "y">>, <<"s", "u", "m">>, <<"s", "h", "o", "w">>, <<"p">>, <<"p", "r", "i", "n", "t">>, <<"d", "i", "f", "f">>, <<"s", "u", "s">>, <<"f", "r", "a", "m", "e", "s", "t", "a", "t">>,
     <<"u", "n", "i", "q", "u", "e">>, <<"u", "u">>}

\* lines 421-440: fm and fnm
ReplFilter ==
    \E text \in CommandPool :
      LET parts == Split(text, <<" ">>)
          match(p) == HasFrameMatching(TrimSpace(p))
          filters == [i \in 1..(Len(parts) - 1) |->
                        IF parts[1] \in {<<"f", "m">>, <<"f", "r", "a", "m", "e", "-", "m", "a", "t", "c", "h">>}
                        THEN match(parts[i + 1]) ELSE Negate(match(parts[i + 1]))]
      IN  /\ parts[1] \in FilterWords
          /\ ReplStep(text, Push(out[1], text, ApplyFilters(out[1].cur, filters)))

\* lines 468-474
ReplPop ==
    \E text \in CommandPool :
      /\ Split(text, <<" ">>)[1] = <<"p", "o", "p">>
      /\ ReplStep(text, Pop(out[1]))

\* lines 441-467 and 475-481
ReplInspect ==
    \E text \in CommandPool :
      /\ Split(text, <<" ">>)[1] \in InspectWords
      /\ ReplStep(text, Inspect(Split(text, <<" ">>)[1], out[1]))

\* no case of the switch
ReplOther ==
    \E text \in CommandPool :
      /\ Split(text, <<" ">>)[1] \notin FilterWords \cup InspectWords \cup {<<"p", "o", "p">>}
      /\ ReplStep(text, out[1])

\* line 418: the scanner has no further line
ReplEOF ==
    /\ pc = "repl"
    /\ pc' = "exited"
    /\ UNCHANGED out
    /\ UnchangedAtRest

NextRepl ==
    \/ ReplFilter
    \/ ReplPop
    \/ ReplInspect
    \/ ReplOther
    \/ ReplEOF

SpecRepl == InitRepl /\ [][NextRepl]_vars

(***************************************************************************)
(* Properties of the REPL.                                                 *)
(***************************************************************************)
\* the step is a command with this word
Command(words) == out'[1].n = out[1].n + 1 /\ out'[1].last \in {Ptr(w) : w \in words}

\* C27: a pop makes current the working set that was current before the
\* most recent filter command not yet undone; with only the initial working
\* set left it changes nothing.
C27_PopRestores ==
    [][Command({<<"p", "o", "p">>}) =>
          IF out[1].undo # <<>>
          THEN /\ out'[1].cur = out[1].undo[Len(out[1].undo)]
               /\ out'[1].undo = SubSeq(out[1].undo, 1, Len(out[1].undo) - 1)
          ELSE /\ out'[1].cur = out[1].cur
               /\ out'[1].stk = out[1].stk
               /\ out'[1].ops = out[1].ops]_vars

\* a pop after two filter commands, back to a working set that is neither
\* the initial one nor the one before the pop
C27_Witness ==
    /\ out[1].last = Ptr(<<"p", "o", "p">>)
    /\ out[1].n = 3
    /\ Len(out[1].stk) = 2
    /\ out[1].cur # arg.input
    /\ out[1].cur # <<>>

\* C28: after every command the history of working sets is not empty, is as
\* long as the list of operations, starts with the initial input and ends
\* with the current working set.
C28_HistoryShape ==
    /\ out[1].stk # <<>>
    /\ Len(out[1].stk) = Len(out[1].ops)
    /\ out[1].stk[1] = arg.input
    /\ out[1].cur = out[1].stk[Len(out[1].stk)]

\* two filter commands and a pop have run
C28_Witness ==
    /\ out[1].n = 3
    /\ Len(out[1].stk) = 3
    /\ out[1].stk[3] # out[1].stk[2]
    /\ out[1].stk[2] # out[1].stk[1]

\* C29: the commands that only inspect, and the unrecognized ones, leave
\* the history, the operations, the current working set and the order of
\* the stacks in every working set as they are.
C29_InspectChangesNothing ==
    [][(out'[1].n = out[1].n + 1 /\ out'[1].last \notin {Ptr(w) : w \in FilterWords \cup {<<"p", "o", "p">>}}) =>
          /\ out'[1].stk = out[1].stk
          /\ out'[1].ops = out[1].ops
          /\ out'[1].cur = out[1].cur]_vars

\* a summary of a working set of several stacks, after a filter command
C29_Witness ==
    /\ pc = "repl"
    /\ out[1].last = Ptr(<<"s">>)
    /\ Len(out[1].stk) = 2
    /\ Len(out[1].cur) >= 2

=============================================================================
